---- MODULE Spec2Model ----
(***************************************************************************)
(* raceday: src/main.rs.  One run of the report generator: configuration,  *)
(* the preparer process, per-pilot aggregation of the races/sessions/slots *)
(* tree, the official-ranking override, the stable ranking sort, the       *)
(* overall-best flags, the per-slot bests, the chart series, the two       *)
(* uploads and the rebuild notification.                                   *)
(*                                                                         *)
(* Strings are sequences of one-character strings.  A lap time (f64        *)
(* seconds) is an integer number of 0.0001 s, so that formatting to three  *)
(* decimals rounds.                                                        *)
(***************************************************************************)
EXTENDS Integers, Sequences, FiniteSets

\* ------------------------------------------------------------------ bounds

\* Lap counts of the enumerated documents range over 0..MaxLaps.
MaxLaps == 2

\* A document carries at most MaxItems optional parts (slot samples,
\* official-ranking entries, a declared metadata.slots).
MaxItems == 2

\* A declared metadata.slots ranges over 0..MaxDeclaredSlots.
MaxDeclaredSlots == 2

\* ------------------------------------------------------- program constants

\* 999.999, the "no time yet" start value of both running minima.
Sentinel == 9999990

\* 900.0, from which a best time displays as "0.000" and is never flagged.
NoTimeCutoff == 9000000

\* metadata.slots when absent.
DefaultSlots == 6

fenda_nomes == <<"", "Vermelha", "Branca", "Verde", "Laranja", "Azul", "Amarela", "Roxa", "Preta">>

fenda_nomes_eixo == <<"Vermelha", "Branca", "Verde", "Laranja", "Azul", "Amarela", "Roxa", "Preta">>

\* ------------------------------------------------------------ option values

None == [some |-> FALSE]

Some(v) == [some |-> TRUE, v |-> v]

UnwrapOr(o, d) == IF o.some THEN o.v ELSE d

\* ------------------------------------------------------------------ strings

Digits == <<"0", "1", "2", "3", "4", "5", "6", "7", "8", "9">>

IsDigit(c) == \E d \in 1..10 : Digits[d] = c

DigitVal(c) == (CHOOSE d \in 1..10 : Digits[d] = c) - 1

\* i64::to_string
RECURSIVE DecStr(_)
DecStr(n) ==
  IF n < 0 THEN <<"-">> \o DecStr(-n)
  ELSE IF n < 10 THEN <<Digits[n + 1]>>
  ELSE DecStr(n \div 10) \o <<Digits[(n % 10) + 1]>>

RECURSIVE DigitsValue(_)
DigitsValue(s) ==
  IF s = <<>> THEN 0
  ELSE 10 * DigitsValue(SubSeq(s, 1, Len(s) - 1)) + DigitVal(s[Len(s)])

AllDigits(s) == \A i \in 1..Len(s) : IsDigit(s[i])

\* str::parse::<i64>: an optional sign, then one or more digits.
ParseInt(s) ==
  LET signed == Len(s) > 0 /\ s[1] \in {"-", "+"}
      body == IF signed THEN SubSeq(s, 2, Len(s)) ELSE s
  IN  IF Len(body) = 0 \/ ~AllDigits(body) THEN None
      ELSE IF signed /\ s[1] = "-" THEN Some(0 - DigitsValue(body))
      ELSE Some(DigitsValue(body))

Pad3(n) == <<Digits[(n \div 100) + 1], Digits[((n \div 10) % 10) + 1], Digits[(n % 10) + 1]>>

\* format!("{:.3}", t): t rounded to the nearest 0.001 (ties to even).
Fmt3(t) ==
  LET q == t \div 10
      r == t % 10
      ms == IF r > 5 \/ (r = 5 /\ q % 2 = 1) THEN q + 1 ELSE q
  IN  DecStr(ms \div 1000) \o <<".">> \o Pad3(ms % 1000)

DotAt(s) == CHOOSE i \in 1..Len(s) : s[i] = "."

RECURSIVE Pow10(_)
Pow10(k) == IF k = 0 THEN 1 ELSE 10 * Pow10(k - 1)

\* str::parse::<f64> on the strings the program builds: digits, a dot and up
\* to four decimals; anything else (the "---" placeholder) is an error.
ParseF64(s) ==
  IF \A i \in 1..Len(s) : s[i] # "." THEN
    (IF Len(s) > 0 /\ AllDigits(s) THEN Some(10000 * DigitsValue(s)) ELSE None)
  ELSE
    LET d == DotAt(s)
        ip == SubSeq(s, 1, d - 1)
        fp == SubSeq(s, d + 1, Len(s))
    IN  IF Len(ip) + Len(fp) = 0 \/ ~AllDigits(ip) \/ ~AllDigits(fp) \/ Len(fp) > 4 THEN None
        ELSE Some(10000 * DigitsValue(ip) + DigitsValue(fp) * Pow10(4 - Len(fp)))

NoTimeStr == <<"-", "-", "-">>

ZeroStr == <<"0", ".", "0", "0", "0">>

SentinelStr == <<"9", "9", "9", ".", "9", "9", "9">>

\* ---------------------------------------------------------------- JSON values

JStr(s) == [t |-> "string", s |-> s]

JNum(n) == [t |-> "number", n |-> n]

\* Value::to_string (the JSON text): a string is quoted, a number is not.
ValueToString(v) ==
  IF v.t = "string" THEN <<"\"">> \o v.s \o <<"\"">> ELSE DecStr(v.n)

\* Value::as_str().unwrap_or("")
AsStrOrEmpty(v) == IF v.t = "string" THEN v.s ELSE <<>>

\* line 153: the slot's occupant is the pilot `id`.
SlotMatches(s_data, id) ==
  \/ ValueToString(s_data.p_id) = <<"\"">> \o id \o <<"\"">>
  \/ ValueToString(s_data.p_id) = id

MapPut(m, k, v) == [x \in (DOMAIN m) \cup {k} |-> IF x = k THEN v ELSE m[x]]

EmptyMap == <<>>

\* ------------------------------------------------------------ the documents

\* The pilots map in its iteration order.
Pilots ==
  << [id |-> <<"0">>, name |-> "Z"], [id |-> <<"1">>, name |-> "A"], [id |-> <<"2">>, name |-> "B"] >>

PilotIds == {Pilots[i].id : i \in 1..Len(Pilots)}

\* The pilots the enumerated documents put in slots and in the official
\* ranking; pilot "0" drove no lap.
Drivers == {<<"1">>, <<"2">>}

\* The keys of a session's slots map in its iteration order.
KeyOrder == << <<"1">>, <<"2">> >>

SlotKeys == {KeyOrder[i] : i \in 1..Len(KeyOrder)}

\* One race of two sessions: both lanes run in the first, lane "1" in the
\* second.
SessionIds == {1, 2}

Positions == {<<1, <<"1">>>>, <<1, <<"2">>>>, <<2, <<"1">>>>}

\* 0 (no lap), 0.0004, 31.8, 31.8004, 950.0, 1000.0
Times == {0, 4, 318000, 318004, 9500000, 10000000}

LapSamples ==
  {[p_id |-> JStr(p), laps |-> Some(l), best |-> Some(318000)] :
     p \in Drivers, l \in 0..MaxLaps}
  \cup {[p_id |-> JNum(1), laps |-> Some(1), best |-> Some(318000)]}

TimeSamples ==
  {[p_id |-> JStr(p), laps |-> Some(1), best |-> Some(t)] : p \in Drivers, t \in Times}

OfficialEntries ==
  {[p_id |-> JStr(p), laps |-> l] : p \in Drivers, l \in {None, Some(0), Some(MaxLaps)}}
  \cup {[p_id |-> JNum(1), laps |-> Some(MaxLaps)]}

\* The placements of exactly n samples of S on the positions.
Placements(S, n) ==
  UNION {[D -> S] : D \in {X \in SUBSET Positions : Cardinality(X) = n}}

\* The races array built from a placement of samples on positions.
RacesOf(pl) ==
  << [sessions |->
       [s \in 1..Cardinality(SessionIds) |->
         [slots |-> [k \in {key \in SlotKeys : <<s, key>> \in DOMAIN pl} |-> pl[<<s, k>>]]]]] >>

Doc(pl, off, slots) == [races |-> RacesOf(pl), official_ranking |-> off, slots |-> slots]

DeclaredSlots(d) == IF d = 0 THEN {None} ELSE {Some(n) : n \in 0..MaxDeclaredSlots}

\* Documents that vary lap counts, the official ranking and metadata.slots:
\* c[1] samples, c[2] official entries, c[3] = 1 when metadata.slots is declared.
LapDocs ==
  UNION {
    {Doc(pl, off, sl) :
       pl \in Placements(LapSamples, c[1]),
       off \in [1..c[2] -> OfficialEntries],
       sl \in DeclaredSlots(c[3])} :
    c \in {x \in (0..MaxItems) \X (0..MaxItems) \X (0..1) : x[1] + x[2] + x[3] <= MaxItems}}

\* Documents that vary best lap times: up to two samples.
TimeDocs == UNION {{Doc(pl, <<>>, None) : pl \in Placements(TimeSamples, n)} : n \in 0..2}

Docs == LapDocs \cup TimeDocs

\* What the preparer prints that is no JSON document.
Malformed == [malformed |-> TRUE]

\* -------------------------------------------------------------- aggregation

\* lines 147-152: the slots in the order the nested loops visit them.
RECURSIVE Flatten(_)
Flatten(ss) == IF ss = <<>> THEN <<>> ELSE Head(ss) \o Flatten(Tail(ss))

SessionVisit(session) ==
  LET present == SelectSeq(KeyOrder, LAMBDA k : k \in DOMAIN session.slots)
  IN  [i \in 1..Len(present) |-> [slot_idx |-> present[i], s_data |-> session.slots[present[i]]]]

RaceVisit(race) == Flatten([i \in 1..Len(race.sessions) |-> SessionVisit(race.sessions[i])])

VisitOrder(doc) == Flatten([i \in 1..Len(doc.races) |-> RaceVisit(doc.races[i])])

\* lines 140-145
AggInit ==
  [laps_map |-> EmptyMap, times_map |-> EmptyMap, total_voltas |-> 0,
   melhor_tempo_piloto |-> Sentinel, best_slot_idx |-> 1, sessions_count |-> 0]

\* lines 153-164: one slot of the walk.
VisitSlot(acc, id, slot_idx, s_data) ==
  IF ~SlotMatches(s_data, id) THEN acc
  ELSE
    LET l == UnwrapOr(s_data.laps, 0)
        t == UnwrapOr(s_data.best, 0)
        better == t > 0 /\ t < acc.melhor_tempo_piloto
    IN  [laps_map |-> MapPut(acc.laps_map, slot_idx, DecStr(l)),
         times_map |-> MapPut(acc.times_map, slot_idx, IF t > 0 THEN Fmt3(t) ELSE NoTimeStr),
         total_voltas |-> acc.total_voltas + l,
         melhor_tempo_piloto |-> IF better THEN t ELSE acc.melhor_tempo_piloto,
         best_slot_idx |-> IF better THEN UnwrapOr(ParseInt(slot_idx), 1) ELSE acc.best_slot_idx,
         sessions_count |-> IF l > 0 THEN acc.sessions_count + 1 ELSE acc.sessions_count]

\* lines 147-170 over a given visiting order.
RECURSIVE Walk(_, _, _)
Walk(acc, id, visit) ==
  IF visit = <<>> THEN acc
  ELSE Walk(VisitSlot(acc, id, Head(visit).slot_idx, Head(visit).s_data), id, Tail(visit))

Aggregate(doc, id) == Walk(AggInit, id, VisitOrder(doc))

\* line 172
DisplayBest(melhor_tempo_piloto) ==
  IF melhor_tempo_piloto >= NoTimeCutoff THEN ZeroStr ELSE Fmt3(melhor_tempo_piloto)

\* line 180: the first official entry whose p_id is the string `id`.
OfficialMatches(doc, id) ==
  {i \in 1..Len(doc.official_ranking) : AsStrOrEmpty(doc.official_ranking[i].p_id) = id}

Min(S) == CHOOSE x \in S : \A y \in S : x <= y

\* FinalLaps with an absent laps read as 0 instead of the raw total.
FinalLapsZeroDefault(doc, id, total_voltas) ==
  IF OfficialMatches(doc, id) = {} THEN total_voltas
  ELSE UnwrapOr(doc.official_ranking[Min(OfficialMatches(doc, id))].laps, 0)

\* lines 175-184
FinalLaps(doc, id, total_voltas) ==
  IF OfficialMatches(doc, id) = {} THEN total_voltas
  ELSE UnwrapOr(doc.official_ranking[Min(OfficialMatches(doc, id))].laps, total_voltas)

\* line 198
SlotName(best_slot_idx) ==
  IF best_slot_idx >= 0 /\ best_slot_idx < Len(fenda_nomes)
  THEN fenda_nomes[best_slot_idx + 1] ELSE "---"

\* lines 139-202: the PilotoDisplay pushed for one pilot.
BuildPiloto(doc, p) ==
  LET a == Aggregate(doc, p.id)
  IN  [nome |-> p.name,
       total_laps |-> FinalLaps(doc, p.id, a.total_voltas),
       sessions |-> a.sessions_count,
       best_time |-> DisplayBest(a.melhor_tempo_piloto),
       is_overall_best |-> FALSE,
       best_slot_name |-> SlotName(a.best_slot_idx),
       laps_per_slot |-> a.laps_map,
       times_per_slot |-> a.times_map]

\* line 171
NextOverall(best, melhor_tempo_piloto) ==
  IF melhor_tempo_piloto < best /\ melhor_tempo_piloto > 0 THEN melhor_tempo_piloto ELSE best

\* line 205: Vec::sort_by is a stable sort; b.total_laps.cmp(&a.total_laps)
\* orders by total_laps descending.
RECURSIVE InsertSorted(_, _)
InsertSorted(sorted, x) ==
  IF sorted = <<>> THEN <<x>>
  ELSE IF Head(sorted).total_laps >= x.total_laps
       THEN <<Head(sorted)>> \o InsertSorted(Tail(sorted), x)
       ELSE <<x>> \o sorted

RECURSIVE SortFrom(_, _)
SortFrom(sorted, rest) ==
  IF rest = <<>> THEN sorted ELSE SortFrom(InsertSorted(sorted, Head(rest)), Tail(rest))

\* An unstable sort: the ranking reversed, then sorted.
SortByLapsUnstable(r) == SortFrom(<<>>, [i \in 1..Len(r) |-> r[Len(r) + 1 - i]])

SortByLapsDesc(r) == SortFrom(<<>>, r)

\* line 207
FlagBest(r, best, best_str) ==
  [i \in 1..Len(r) |->
    IF r[i].best_time = best_str /\ best < NoTimeCutoff
    THEN [r[i] EXCEPT !.is_overall_best = TRUE] ELSE r[i]]

\* lines 212-220 for one pilot: every slot of its times map against the
\* bests so far.
SlotBestsOf(bests, p) ==
  LET improves(slot) ==
        LET t == ParseF64(p.times_per_slot[slot])
            current_best_str == IF slot \in DOMAIN bests THEN bests[slot] ELSE SentinelStr
            current_best == UnwrapOr(ParseF64(current_best_str), Sentinel)
        IN  t.some /\ t.v < current_best /\ t.v > 0
      ins == {slot \in DOMAIN p.times_per_slot : improves(slot)}
  IN  [slot \in (DOMAIN bests) \cup ins |->
        IF slot \in ins THEN Fmt3(ParseF64(p.times_per_slot[slot]).v) ELSE bests[slot]]

\* lines 210-221
RECURSIVE SlotBests(_, _)
SlotBests(bests, r) ==
  IF r = <<>> THEN bests ELSE SlotBests(SlotBestsOf(bests, Head(r)), Tail(r))

\* DataPontos over lanes 0..slots_count-1.
DataPontosFromZero(piloto, slots_count) ==
  [s \in 1..slots_count |->
    IF DecStr(s - 1) \in DOMAIN piloto.laps_per_slot
    THEN UnwrapOr(ParseInt(piloto.laps_per_slot[DecStr(s - 1)]), 0) ELSE 0]

\* lines 78-84
DataPontos(piloto, slots_count) ==
  [s \in 1..slots_count |->
    IF DecStr(s) \in DOMAIN piloto.laps_per_slot
    THEN UnwrapOr(ParseInt(piloto.laps_per_slot[DecStr(s)]), 0) ELSE 0]

\* lines 68-105
gerar_json_grafico(r, slots_count) ==
  [labels |-> SubSeq(fenda_nomes_eixo, 1,
                     IF slots_count < Len(fenda_nomes_eixo) THEN slots_count ELSE Len(fenda_nomes_eixo)),
   datasets |-> [i \in 1..Len(r) |-> [label |-> r[i].nome, data |-> DataPontos(r[i], slots_count)]]]

\* ------------------------------------------------------------------- state

VARIABLES
  argc,                 \* env::args().len()
  env,                  \* the environment, each variable resolved when first read
  ini,                  \* what the preparer prints for the .INI file given
  pc,                   \* where main is
  exit,                 \* "running", "ok" (0), "fail" (1 / Err) or "panic"
  log,                  \* the progress lines printed
  data,                 \* the parsed document
  ranking,
  best_lap_overall,
  best_lap_str,
  best_times_per_slot,
  dados_grafico,
  uploaded,             \* the keys put to R2, in order
  webhook               \* "none", "unconfigured", "sent" or "failed"

vars ==
  <<argc, env, ini, pc, exit, log, data, ranking, best_lap_overall, best_lap_str,
    best_times_per_slot, dados_grafico, uploaded, webhook>>

EnvNames == {"CLUB", "TRACK", "R2_ENDPOINT", "RENDER_SYNC_URL"}

NoData == [loaded |-> FALSE]

NoChart == [labels |-> <<>>, datasets |-> <<>>]

Init ==
  /\ argc \in {1, 2}
  /\ env = [n \in EnvNames |-> "unread"]
  /\ ini \in Docs \cup {Malformed}
  /\ pc = "args"
  /\ exit = "running"
  /\ log = <<>>
  /\ data = NoData
  /\ ranking = <<>>
  /\ best_lap_overall = Sentinel
  /\ best_lap_str = <<>>
  /\ best_times_per_slot = EmptyMap
  /\ dados_grafico = NoChart
  /\ uploaded = <<>>
  /\ webhook = "none"

\* env::var(name): a variable keeps the value its first read found.
Lookup(name) == IF env[name] = "unread" THEN {"set", "unset"} ELSE {env[name]}

Pure == <<data, ranking, best_lap_overall, best_lap_str, best_times_per_slot, dados_grafico>>

Outside == <<argc, ini, uploaded, webhook>>

\* line 110
CheckArgs ==
  /\ pc = "args"
  /\ IF argc < 2 THEN pc' = "done" /\ exit' = "fail" ELSE pc' = "club" /\ exit' = exit
  /\ UNCHANGED <<env, log, Pure, Outside>>

\* line 113
ReadClub ==
  /\ pc = "club"
  /\ \E v \in Lookup("CLUB") :
       /\ env' = [env EXCEPT !["CLUB"] = v]
       /\ IF v = "set" THEN pc' = "track" /\ exit' = exit ELSE pc' = "done" /\ exit' = "panic"
  /\ UNCHANGED <<log, Pure, Outside>>

\* line 114
ReadTrack ==
  /\ pc = "track"
  /\ \E v \in Lookup("TRACK") :
       /\ env' = [env EXCEPT !["TRACK"] = v]
       /\ IF v = "set" THEN pc' = "prepare" /\ exit' = exit ELSE pc' = "done" /\ exit' = "panic"
  /\ UNCHANGED <<log, Pure, Outside>>

\* lines 117-131: the preparer runs; a failure to spawn it, a non-zero exit
\* or an output that is no JSON ends the run.
RunPreparer ==
  /\ pc = "prepare"
  /\ log' = Append(log, "1/5")
  /\ \E ran \in BOOLEAN :
       IF ran /\ ini # Malformed
       THEN data' = ini /\ pc' = "pilots" /\ exit' = exit
       ELSE data' = data /\ pc' = "done" /\ exit' = "fail"
  /\ UNCHANGED <<env, ranking, best_lap_overall, best_lap_str, best_times_per_slot,
                 dados_grafico, Outside>>

\* lines 139-202: one iteration of the loop over the pilots map.
AggregatePilot ==
  /\ pc = "pilots"
  /\ Len(ranking) < Len(Pilots)
  /\ LET p == Pilots[Len(ranking) + 1]
     IN  /\ best_lap_overall' =
                NextOverall(best_lap_overall, Aggregate(data, p.id).melhor_tempo_piloto)
         /\ ranking' = Append(ranking, BuildPiloto(data, p))
  /\ UNCHANGED <<env, pc, exit, log, data, best_lap_str, best_times_per_slot,
                 dados_grafico, Outside>>

\* line 205
SortRanking ==
  /\ pc = "pilots"
  /\ Len(ranking) = Len(Pilots)
  /\ ranking' = SortByLapsDesc(ranking)
  /\ pc' = "flag"
  /\ UNCHANGED <<env, exit, log, data, best_lap_overall, best_lap_str, best_times_per_slot,
                 dados_grafico, Outside>>

\* lines 206-207
FlagOverallBest ==
  /\ pc = "flag"
  /\ best_lap_str' = Fmt3(best_lap_overall)
  /\ ranking' = FlagBest(ranking, best_lap_overall, Fmt3(best_lap_overall))
  /\ pc' = "slot_bests"
  /\ UNCHANGED <<env, exit, log, data, best_lap_overall, best_times_per_slot,
                 dados_grafico, Outside>>

\* lines 210-221
ComputeSlotBests ==
  /\ pc = "slot_bests"
  /\ best_times_per_slot' = SlotBests(EmptyMap, ranking)
  /\ pc' = "report"
  /\ UNCHANGED <<env, exit, log, data, ranking, best_lap_overall, best_lap_str,
                 dados_grafico, Outside>>

\* lines 224-266: the chart series, the template rendering and the two
\* local files; a template or file-system error ends the run.
RenderReport ==
  /\ pc = "report"
  /\ log' = Append(log, "2/5")
  /\ dados_grafico' = gerar_json_grafico(ranking, UnwrapOr(data.slots, DefaultSlots))
  /\ \E ok \in BOOLEAN :
       IF ok THEN pc' = "upload_json" /\ exit' = exit ELSE pc' = "done" /\ exit' = "fail"
  /\ UNCHANGED <<env, data, ranking, best_lap_overall, best_lap_str, best_times_per_slot,
                 Outside>>

\* lines 30-53: R2_ENDPOINT is read (a panic when unset), then the object is put.
upload_to_r2(target_key, next) ==
  \E v \in Lookup("R2_ENDPOINT") :
    /\ env' = [env EXCEPT !["R2_ENDPOINT"] = v]
    /\ IF v = "unset"
       THEN pc' = "done" /\ exit' = "panic" /\ uploaded' = uploaded
       ELSE \E sent \in BOOLEAN :
              IF sent
              THEN pc' = next /\ exit' = exit /\ uploaded' = Append(uploaded, target_key)
              ELSE pc' = "done" /\ exit' = "fail" /\ uploaded' = uploaded

\* lines 268-269
UploadJson ==
  /\ pc = "upload_json"
  /\ log' = Append(log, "3/5")
  /\ upload_to_r2("json", "upload_html")
  /\ UNCHANGED <<argc, ini, webhook, Pure>>

\* lines 271-272
UploadHtml ==
  /\ pc = "upload_html"
  /\ log' = Append(log, "4/5")
  /\ upload_to_r2("html", "notify")
  /\ UNCHANGED <<argc, ini, webhook, Pure>>

\* TriggerRenderSync with a failed POST ending the run.
TriggerRenderSyncFatal ==
  /\ pc = "notify"
  /\ log' = Append(log, "5/5")
  /\ \E v \in Lookup("RENDER_SYNC_URL") :
       /\ env' = [env EXCEPT !["RENDER_SYNC_URL"] = v]
       /\ IF v = "unset"
          THEN webhook' = "unconfigured" /\ pc' = "finish" /\ exit' = exit
          ELSE \E answered \in BOOLEAN :
                 IF answered
                 THEN webhook' = "sent" /\ pc' = "finish" /\ exit' = exit
                 ELSE webhook' = "failed" /\ pc' = "done" /\ exit' = "fail"
  /\ UNCHANGED <<argc, ini, uploaded, Pure>>

\* lines 55-64 and 274-275: the result of the POST (an error, a timeout after
\* 60 s) is dropped.
TriggerRenderSync ==
  /\ pc = "notify"
  /\ log' = Append(log, "5/5")
  /\ \E v \in Lookup("RENDER_SYNC_URL") :
       /\ env' = [env EXCEPT !["RENDER_SYNC_URL"] = v]
       /\ IF v = "unset"
          THEN webhook' = "unconfigured"
          ELSE \E answered \in BOOLEAN : webhook' = IF answered THEN "sent" ELSE "failed"
  /\ pc' = "finish"
  /\ UNCHANGED <<argc, ini, exit, uploaded, Pure>>

\* lines 277-278
Finish ==
  /\ pc = "finish"
  /\ log' = Append(log, "concluido")
  /\ pc' = "done"
  /\ exit' = "ok"
  /\ UNCHANGED <<env, Pure, Outside>>

Next ==
  \/ CheckArgs
  \/ ReadClub
  \/ ReadTrack
  \/ RunPreparer
  \/ AggregatePilot
  \/ SortRanking
  \/ FlagOverallBest
  \/ ComputeSlotBests
  \/ RenderReport
  \/ UploadJson
  \/ UploadHtml
  \/ TriggerRenderSync
  \/ Finish

Spec == Init /\ [][Next]_vars

\* ------------------------------------------------- what the document records

Printed(line) == \E i \in 1..Len(log) : log[i] = line

SlotBestsDone == pc = "report" \/ Printed("2/5")

Flagged == pc = "slot_bests" \/ SlotBestsDone

Sorted == pc = "flag" \/ Flagged

Pushed(name) == \E i \in 1..Len(ranking) : ranking[i].nome = name

EntryOf(name) == ranking[CHOOSE i \in 1..Len(ranking) : ranking[i].nome = name]

PilotIdx(name) == CHOOSE i \in 1..Len(Pilots) : Pilots[i].name = name

\* The slots of the document: <<race, session, slot key>>.
SlotsOf(doc) ==
  UNION {UNION {{<<r, s, k>> : k \in DOMAIN doc.races[r].sessions[s].slots} :
                s \in 1..Len(doc.races[r].sessions)} :
         r \in 1..Len(doc.races)}

SampleAt(doc, pos) == doc.races[pos[1]].sessions[pos[2]].slots[pos[3]]

\* The slots a pilot occupies.
SlotsOfPilot(doc, id) == {pos \in SlotsOf(doc) : SlotMatches(SampleAt(doc, pos), id)}

RECURSIVE SumLaps(_, _)
SumLaps(doc, S) ==
  IF S = {} THEN 0
  ELSE LET pos == CHOOSE x \in S : TRUE
       IN  UnwrapOr(SampleAt(doc, pos).laps, 0) + SumLaps(doc, S \ {pos})

\* The positive best times recorded in a set of slots.
PositiveTimes(doc, S) ==
  {UnwrapOr(SampleAt(doc, pos).best, 0) : pos \in {x \in S : UnwrapOr(SampleAt(doc, x).best, 0) > 0}}

AllPilotSlots(doc) == UNION {SlotsOfPilot(doc, id) : id \in PilotIds}

Perms(q) ==
  {[i \in 1..Len(q) |-> q[f[i]]] :
     f \in {g \in [1..Len(q) -> 1..Len(q)] : \A i, j \in 1..Len(q) : g[i] = g[j] => i = j}}

\* ------------------------------------------------------------------- claims

C2_StableDescending ==
  Sorted =>
    /\ Len(ranking) = Len(Pilots)
    /\ \A i \in 1..Len(Pilots) : Pushed(Pilots[i].name)
    /\ \A i, j \in 1..Len(ranking) :
         i < j =>
           /\ ranking[i].total_laps >= ranking[j].total_laps
           /\ ranking[i].total_laps = ranking[j].total_laps =>
                PilotIdx(ranking[i].nome) < PilotIdx(ranking[j].nome)

\* C2 witness: a sorted ranking with a tie on a positive total.
C2_Witness ==
  /\ Sorted
  /\ \E i, j \in 1..Len(ranking) :
       i < j /\ ranking[i].total_laps = ranking[j].total_laps /\ ranking[i].total_laps > 0

\* C3: a pilot none of whose slots has a best time > 0 shows "0.000" and is
\* not flagged overall-best once the flags are set.
C3_NoTimeNeverBest ==
  Flagged =>
    \A i \in 1..Len(Pilots) :
      PositiveTimes(data, SlotsOfPilot(data, Pilots[i].id)) = {} =>
        /\ EntryOf(Pilots[i].name).best_time = ZeroStr
        /\ ~EntryOf(Pilots[i].name).is_overall_best

\* C4: when some pilot has a positive best time, the flagged pilots are
\* exactly those whose best_time string is the minimum positive time
\* formatted to 3 decimals, and overall_best_time_formatted is that string.
C4_OverallBest ==
  (Flagged /\ PositiveTimes(data, AllPilotSlots(data)) # {}) =>
    LET min_str == Fmt3(Min(PositiveTimes(data, AllPilotSlots(data))))
    IN  /\ best_lap_str = min_str
        /\ \A i \in 1..Len(ranking) :
             ranking[i].is_overall_best <=> ranking[i].best_time = min_str

\* C5: best_times_per_slot holds a slot id exactly when some pilot recorded
\* a best time > 0 in that slot in some session, and its value is the
\* minimum of those times formatted to 3 decimals.
C5_SlotBests ==
  SlotBestsDone =>
    \A k \in SlotKeys :
      LET pos == PositiveTimes(data, {x \in AllPilotSlots(data) : x[3] = k})
      IN  /\ k \in DOMAIN best_times_per_slot <=> pos # {}
          /\ k \in DOMAIN best_times_per_slot => best_times_per_slot[k] = Fmt3(Min(pos))

\* C6: a pilot with a slot time > 0 shows the minimum of its positive times
\* formatted to 3 decimals, and best_slot_name names a slot in which that
\* minimum was recorded.
C6_PilotBest ==
  \A i \in 1..Len(Pilots) :
    LET mine == SlotsOfPilot(data, Pilots[i].id)
        pos == PositiveTimes(data, mine)
    IN  (Pushed(Pilots[i].name) /\ pos # {}) =>
          /\ EntryOf(Pilots[i].name).best_time = Fmt3(Min(pos))
          /\ \E x \in mine :
               /\ UnwrapOr(SampleAt(data, x).best, 0) = Min(pos)
               /\ EntryOf(Pilots[i].name).best_slot_name = fenda_nomes[DigitsValue(x[3]) + 1]

\* The slot of S visited last (S holds slots of one slot key).
LastVisited(S) ==
  CHOOSE x \in S : \A y \in S : y[1] < x[1] \/ (y[1] = x[1] /\ y[2] <= x[2])

C8_ConfigBeforeWork ==
  \A n \in {"CLUB", "TRACK", "R2_ENDPOINT"} :
    env[n] = "unset" => (~Printed("1/5") /\ ranking = <<>>)

\* C9: once both uploads have succeeded the run can only go on to exit
\* zero, whatever becomes of the webhook; a run that ends with an upload
\* attempted and not both done ends non-zero; the webhook is fired only
\* after both uploads.
C9_NotificationNonFatal ==
  /\ uploaded = <<"json", "html">> =>
       IF pc = "done" THEN exit = "ok" ELSE exit = "running" /\ pc \in {"notify", "finish"}
  /\ (pc = "done" /\ Printed("3/5") /\ uploaded # <<"json", "html">>) =>
       (exit \in {"fail", "panic"} /\ webhook = "none")
  /\ webhook # "none" => uploaded = <<"json", "html">>

\* C9 witness: the run ended with exit zero although the webhook failed.
C9_Witness == pc = "done" /\ exit = "ok" /\ webhook = "failed"

\* C10: whatever the order in which the slots of the document are visited,
\* the aggregation of a pilot gives the same total, sessions count, best
\* time, best slot and the same laps_per_slot and times_per_slot maps.
C10_OrderIndependent ==
  \A i \in 1..Len(Pilots) :
    Pushed(Pilots[i].name) =>
      \A visit \in Perms(VisitOrder(data)) :
        LET a == Walk(AggInit, Pilots[i].id, visit)
            e == EntryOf(Pilots[i].name)
        IN  /\ a.total_voltas = Aggregate(data, Pilots[i].id).total_voltas
            /\ a.sessions_count = e.sessions
            /\ DisplayBest(a.melhor_tempo_piloto) = e.best_time
            /\ SlotName(a.best_slot_idx) = e.best_slot_name
            /\ a.laps_map = e.laps_per_slot
            /\ a.times_map = e.times_per_slot

====
